---- MODULE Spec2Model ----
(***************************************************************************)
(* Model of the dotenv-vault diff action: the diff-range extraction, the   *)
(* versions-listing parser, the per-stage comment fragments and the        *)
(* create-or-update of the pull request comment.                           *)
(*                                                                         *)
(* Text is modelled as a sequence of tokens, each a string: a token is one *)
(* character (a digit, "+", "-", " ", "v", a line feed) or an atomic word  *)
(* that holds none of those characters.                                    *)
(***************************************************************************)
EXTENDS Integers, Sequences, FiniteSets, TLC

\* ------------------------------------------------------------ bounds
\* Version numbers used in diffs and listings: VersionBase .. VersionBase + VersionSpan
VersionBase == 9
VersionSpan == 2
\* Lines of a free-form diff
MaxDiffLines == 3
\* Data lines of a versions listing
MaxRecords == 2

Versions == VersionBase .. (VersionBase + VersionSpan)

\* ------------------------------------------------------------ tokens
NL == "\n"
SP == " "
Digits == <<"0", "1", "2", "3", "4", "5", "6", "7", "8", "9">>
DigitSet == {Digits[i] : i \in 1..Len(Digits)}
DigitVal(d) == (CHOOSE i \in 1..Len(Digits) : Digits[i] = d) - 1

RECURSIVE ToDigits(_)
\* The decimal text of a natural number
ToDigits(n) == IF n < 10 THEN <<Digits[n + 1]>>
               ELSE ToDigits(n \div 10) \o <<Digits[(n % 10) + 1]>>

RECURSIVE DigitsValue(_, _)
DigitsValue(ds, acc) == IF ds = <<>> THEN acc
                        ELSE DigitsValue(Tail(ds), acc * 10 + DigitVal(Head(ds)))

\* ------------------------------------------------------------ numbers
\* A number of the program: finite, or one of the three non-finite values
Fin(n) == [k |-> "fin", n |-> n]
PosInf == [k |-> "+inf", n |-> 0]
NegInf == [k |-> "-inf", n |-> 0]
NaN == [k |-> "nan", n |-> 0]

SeqMin(s) == CHOOSE x \in {s[i] : i \in 1..Len(s)} : \A j \in 1..Len(s) : x <= s[j]
SeqMax(s) == CHOOSE x \in {s[i] : i \in 1..Len(s)} : \A j \in 1..Len(s) : x >= s[j]

\* A faulty variant: no removed version taken as a baseline of zero
MathMinOrZero(s) == IF s = <<>> THEN Fin(0) ELSE Fin(SeqMin(s))

\* Math.min(...s), Math.max(...s)
MathMin(s) == IF s = <<>> THEN PosInf ELSE Fin(SeqMin(s))
MathMax(s) == IF s = <<>> THEN NegInf ELSE Fin(SeqMax(s))

\* a - b
NumSub(a, b) ==
  CASE a.k = "nan" \/ b.k = "nan" -> NaN
    [] a.k = "fin" /\ b.k = "fin" -> Fin(a.n - b.n)
    [] a.k = "fin" /\ b.k = "+inf" -> NegInf
    [] a.k = "fin" /\ b.k = "-inf" -> PosInf
    [] a.k = b.k -> NaN
    [] OTHER -> a

\* parseInt(text): leading blanks skipped, then the longest run of digits
RECURSIVE LeadingDigits(_)
LeadingDigits(t) == IF t # <<>> /\ Head(t) \in DigitSet
                    THEN <<Head(t)>> \o LeadingDigits(Tail(t))
                    ELSE <<>>

RECURSIVE SkipBlanks(_)
SkipBlanks(t) == IF t # <<>> /\ Head(t) \in {SP, NL} THEN SkipBlanks(Tail(t)) ELSE t

ParseInt(t) == LET ds == LeadingDigits(SkipBlanks(t))
               IN IF ds = <<>> THEN NaN ELSE Fin(DigitsValue(ds, 0))

\* ------------------------------------------------------------ text
\* text.startsWith(needle) at position i
MatchAt(text, i, needle) ==
  /\ i + Len(needle) - 1 <= Len(text)
  /\ SubSeq(text, i, i + Len(needle) - 1) = needle

\* text.includes(needle)
Includes(text, needle) ==
  \E i \in 1..Len(text) : text[i] = needle[1] /\ MatchAt(text, i, needle)

RECURSIVE Concat(_)
Concat(ss) == IF ss = <<>> THEN <<>> ELSE Head(ss) \o Concat(Tail(ss))

RECURSIVE Join(_, _)
\* parts.join(sep)
Join(parts, sep) == IF parts = <<>> THEN <<>>
                    ELSE IF Len(parts) = 1 THEN Head(parts)
                    ELSE Head(parts) \o sep \o Join(Tail(parts), sep)

\* ------------------------------------------------------------ stages
STAGES == <<"CI", "DEVELOPMENT", "STAGING", "PRODUCTION">>
StageSet == {STAGES[i] : i \in 1..Len(STAGES)}
StageIndex(stage) == CHOOSE i \in 1..Len(STAGES) : STAGES[i] = stage

\* The text ${sign}DOTENV_VAULT_${stage}
StageMarker(sign, stage) == <<sign, "DOTENV_VAULT_", stage>>
\* The text ${sign}DOTENV_VAULT_${stage}_VERSION=
VersionMarker(sign, stage) == StageMarker(sign, stage) \o <<"_VERSION=">>

\* A faulty variant: only added lines mark a stage as changed
StageAdded(diff, stage) == Includes(diff, StageMarker("+", stage))

\* The filter over STAGES that keeps the stages the diff mentions
StageChanged(diff, stage) ==
  \/ Includes(diff, StageMarker("+", stage))
  \/ Includes(diff, StageMarker("-", stage))

RECURSIVE SelectStages(_, _)
SelectStages(diff, stages) ==
  IF stages = <<>> THEN <<>>
  ELSE (IF StageChanged(diff, Head(stages)) THEN <<Head(stages)>> ELSE <<>>)
       \o SelectStages(diff, Tail(stages))

ChangedStages(diff) == SelectStages(diff, STAGES)

RECURSIVE ExecAll(_, _, _)
\* The loop over regex.exec with the g flag: every match of marker followed by
\* (\d+), left to right, each capture through parseInt
ExecAll(diff, marker, i) ==
  IF i > Len(diff) THEN <<>>
  ELSE IF diff[i] = marker[1] /\ MatchAt(diff, i, marker)
       THEN LET ds == LeadingDigits(SubSeq(diff, i + Len(marker), Len(diff)))
            IN IF ds = <<>> THEN ExecAll(diff, marker, i + 1)
               ELSE <<DigitsValue(ds, 0)>>
                    \o ExecAll(diff, marker, i + Len(marker) + Len(ds))
       ELSE ExecAll(diff, marker, i + 1)

AddedVersions(diff, stage) == ExecAll(diff, VersionMarker("+", stage), 1)
RemovedVersions(diff, stage) == ExecAll(diff, VersionMarker("-", stage), 1)

MinRemovedVersion(diff, stage) == MathMin(RemovedVersions(diff, stage))
\* A faulty variant: the upper bound taken over the removed versions
MaxRemovedVersion(diff, stage) == MathMax(RemovedVersions(diff, stage))
MaxAddedVersion(diff, stage) == MathMax(AddedVersions(diff, stage))

\* ToLength of the array-like's length: NaN and anything below zero give 0
ToLength(x) == IF x.k = "fin" /\ x.n > 0 THEN x.n ELSE 0
\* Array.from throws RangeError on a length that is no array length
BadLength(x) == x.k = "+inf"

\* Array.from({ length }, (_, i) => minRemovedVersion + i + 1)
ArrayFrom(length, minRemoved) ==
  LET base == minRemoved.n
  IN [i \in 1..ToLength(length) |-> base + (i - 1) + 1]

\* The callback of changedStages.map: the versions, and whether Array.from threw
StageRange(diff, stage) ==
  LET minRemovedVersion == MinRemovedVersion(diff, stage)
      maxAddedVersion == MaxAddedVersion(diff, stage)
      length == NumSub(maxAddedVersion, minRemovedVersion)
  IN [bad |-> BadLength(length), versions |-> ArrayFrom(length, minRemovedVersion)]

RECURSIVE MapRanges(_, _)
MapRanges(diff, stages) ==
  IF stages = <<>> THEN <<>>
  ELSE <<StageRange(diff, Head(stages))>> \o MapRanges(diff, Tail(stages))

\* getChangedStageVersions, given the diff command's output
getChangedStageVersions(diff) ==
  LET changedStages == ChangedStages(diff)
      ranges == MapRanges(diff, changedStages)
  IN [threw |-> \E i \in 1..Len(ranges) : ranges[i].bad,
      stages |-> [i \in 1..Len(ranges) |->
                    [stage |-> changedStages[i], versions |-> ranges[i].versions]]]

\* ------------------------------------------------------------ listing parser
RECURSIVE SplitOnAcc(_, _, _)
SplitOnAcc(text, sep, cur) ==
  IF text = <<>> THEN <<cur>>
  ELSE IF Head(text) = sep THEN <<cur>> \o SplitOnAcc(Tail(text), sep, <<>>)
  ELSE SplitOnAcc(Tail(text), sep, Append(cur, Head(text)))

\* text.split(sep), sep one character
SplitOn(text, sep) == SplitOnAcc(text, sep, <<>>)

RECURSIVE BlankRun(_)
\* The number of blanks text starts with
BlankRun(text) == IF text # <<>> /\ Head(text) = SP THEN 1 + BlankRun(Tail(text)) ELSE 0

RECURSIVE SplitGapsAcc(_, _)
SplitGapsAcc(text, cur) ==
  IF text = <<>> THEN <<cur>>
  ELSE IF BlankRun(text) >= 2
       THEN <<cur>> \o SplitGapsAcc(SubSeq(text, BlankRun(text) + 1, Len(text)), <<>>)
  ELSE SplitGapsAcc(Tail(text), Append(cur, Head(text)))

\* text.split(/\s{2,}/)
SplitGaps(text) == SplitGapsAcc(text, <<>>)

RECURSIVE TrimEnd(_)
TrimEnd(text) == IF text # <<>> /\ text[Len(text)] \in {SP, NL}
                 THEN TrimEnd(SubSeq(text, 1, Len(text) - 1))
                 ELSE text

\* text.trim()
Trim(text) == TrimEnd(SkipBlanks(text))

RECURSIVE ReplaceFirst(_, _)
\* text.replace(tok, "")
ReplaceFirst(text, tok) ==
  IF text = <<>> THEN <<>>
  ELSE IF Head(text) = tok THEN Tail(text)
  ELSE <<Head(text)>> \o ReplaceFirst(Tail(text), tok)

\* A faulty variant: the version read from the group next to the user
LastGroup(parts) == parts[Len(parts)]

\* The group the version is read from: parts.splice(0, 1)[0] after parts.pop()
VersionGroup(parts) == parts[1]
\* The group the fields are read from: parts[0] after the splice
FieldsGroup(parts) == parts[2]

\* The callback of versionLines.map; an undefined version is the empty text
ParseLine(line) ==
  LET groups == SplitGaps(Trim(line))
      userTime == SplitOn(groups[Len(groups)], SP)
      parts == SubSeq(groups, 1, Len(groups) - 1)
  IN [version |-> IF parts = <<>> THEN <<>> ELSE ReplaceFirst(VersionGroup(parts), "v"),
      fields |-> IF Len(parts) >= 2 THEN FieldsGroup(parts) ELSE <<"N/A">>,
      user |-> Head(userTime),
      time |-> Join([i \in 1..(Len(userTime) - 1) |-> userTime[i + 1]], <<SP>>)]

RECURSIVE ParseLines(_)
\* filter blank lines, map, filter records without a version
ParseLines(lines) ==
  IF lines = <<>> THEN <<>>
  ELSE (IF Trim(Head(lines)) = <<>> THEN <<>>
        ELSE IF ParseLine(Head(lines)).version = <<>> THEN <<>>
        ELSE <<ParseLine(Head(lines))>>)
       \o ParseLines(Tail(lines))

\* stdout.split("\n").slice(2)
VersionLines(out) == LET all == SplitOn(out, NL)
                     IN SubSeq(all, 3, Len(all))

\* getAllVersions, given how the versions command ended: an error gives []
getAllVersions(result) ==
  IF result.failed THEN <<>> ELSE ParseLines(VersionLines(result.stdout))

\* ------------------------------------------------------------ fragments
NoChanges(stage) == <<stage, ": No changes">>
NoVersionsChanged(stage) == <<stage, ": No versions changed">>
\* The template literal ${stage} (${cv.version}): BT${cv.fields}BT, BT the backtick
BT == "BACKTICK"
VersionLine(stage, cv) ==
  <<stage, SP, "(">> \o cv.version \o <<")", ":", SP, BT>> \o cv.fields \o <<BT>>

\* A faulty variant: every version up to the newest of the range is kept
InRangeUpTo(entry, version) ==
  LET n == ParseInt(version.version)
  IN n.k = "fin" /\ entry.versions # <<>> /\ n.n <= entry.versions[Len(entry.versions)]

\* changedVersion.versions.includes(parseInt(version.version, 10))
InRange(entry, version) ==
  LET n == ParseInt(version.version)
  IN n.k = "fin" /\ \E i \in 1..Len(entry.versions) : entry.versions[i] = n.n

RECURSIVE FilterVersions(_, _)
FilterVersions(entry, versions) ==
  IF versions = <<>> THEN <<>>
  ELSE (IF InRange(entry, Head(versions)) THEN <<Head(versions)>> ELSE <<>>)
       \o FilterVersions(entry, Tail(versions))

\* changedStageVersions.find(changedStage => changedStage.stage === stage)
HasEntry(changed, stage) == \E i \in 1..Len(changed) : changed[i].stage = stage
FindEntry(changed, stage) ==
  changed[CHOOSE i \in 1..Len(changed) :
            changed[i].stage = stage /\ \A j \in 1..(i - 1) : changed[j].stage # stage]

\* The rest of the per-stage callback once getAllVersions has returned
ChangedOutput(stage, entry, versions) ==
  LET changedVersions == FilterVersions(entry, versions)
  IN IF changedVersions = <<>> THEN NoVersionsChanged(stage)
     ELSE Join([i \in 1..Len(changedVersions) |-> VersionLine(stage, changedVersions[i])],
               <<NL>>)

Header == "Dotenv-vault Diff"
\* The header line, then versionOutputs.join("\n")
CommentBody(outputs) == <<Header, NL>> \o Join(outputs, <<NL>>)

\* ------------------------------------------------------------ inputs
\* Sequences over S of length at most k
SeqsUpTo(S, k) == UNION {[1..n -> S] : n \in 0..k}

\* A line of the diff of .env.vault: a sign, then DOTENV_VAULT_<STAGE> followed
\* either by _VERSION=<n> or by the encrypted value
KeyLine(sign, stage) == [sign |-> sign, stage |-> stage, kind |-> "KEY", n |-> 0]
VersionDiffLine(sign, stage, n) == [sign |-> sign, stage |-> stage, kind |-> "VERSION", n |-> n]

RenderDiffLine(l) ==
  StageMarker(l.sign, l.stage)
  \o (IF l.kind = "VERSION" THEN <<"_VERSION=">> \o ToDigits(l.n)
      ELSE <<"=", "\"ciphertext\"">>)
  \o <<NL>>

DiffHeader ==
  <<"-", "-", "-", SP, "a/.env.vault", NL, "+", "+", "+", SP, "b/.env.vault", NL>>

\* What git diff prints for the changed lines given; nothing when none changed
RenderDiff(lines) ==
  IF lines = <<>> THEN <<>>
  ELSE DiffHeader \o Concat([i \in 1..Len(lines) |-> RenderDiffLine(lines[i])])

\* Free-form diffs: any lines, in any order, over two stages
FreeStages == {"STAGING", "PRODUCTION"}
FreeLines ==
  {VersionDiffLine(sign, st, n) : sign \in {"+", "-"}, st \in FreeStages, n \in Versions}
  \cup {KeyLine("+", "PRODUCTION"), KeyLine("-", "PRODUCTION"),
        VersionDiffLine(SP, "STAGING", VersionBase)}
FreeDiffs == SeqsUpTo(FreeLines, MaxDiffLines)

\* Diffs as a change of one stage's block produces them
BlockNone == <<>>
BlockKeyOnly(st) == <<KeyLine("-", st), KeyLine("+", st)>>
BlockAdded(st, b) == <<KeyLine("+", st), VersionDiffLine("+", st, b)>>
BlockRemoved(st, a) == <<KeyLine("-", st), VersionDiffLine("-", st, a)>>
BlockChanged(st, a, b) ==
  <<KeyLine("-", st), VersionDiffLine("-", st, a), KeyLine("+", st), VersionDiffLine("+", st, b)>>
Blocks(st) ==
  {BlockNone, BlockKeyOnly(st)}
  \cup {BlockAdded(st, b) : b \in Versions}
  \cup {BlockRemoved(st, a) : a \in Versions}
  \cup {BlockChanged(st, a, b) : a \in Versions, b \in Versions}
BlockDiffs ==
  {b1 \o b2 : b1 \in UNION {Blocks(st) : st \in {"CI", "DEVELOPMENT", "STAGING"}},
              b2 \in {BlockNone, BlockChanged("PRODUCTION", VersionBase, VersionBase + 1)}}

\* A data line of the versions listing: groups before the v<N> group, the v<N>
\* group, groups after it, and the user-and-time group
FieldA == <<"HELLO,", SP, "WORLD">>
FieldB == <<"field-b">>
ListingLine(pre, n, post) == [pre |-> pre, n |-> n, post |-> post]
Times == {<<"today">>, <<"2024-01-01", "10:00">>}

Blanks(k) == [i \in 1..k |-> SP]

RenderListingLine(l, shape) ==
  Blanks(shape.lead)
  \o Join(l.pre \o <<<<"v">> \o ToDigits(l.n)>> \o l.post
          \o <<<<"alice", SP>> \o Join([i \in 1..Len(shape.time) |-> <<shape.time[i]>>], <<SP>>)>>,
          Blanks(shape.gap))
  \o <<NL>>

ListingHeader ==
  <<"Ver", SP, SP, "Change", SP, SP, "By", SP, SP, "When", NL, "---", NL>>

\* What the versions command prints
RenderListing(listing) ==
  ListingHeader
  \o Concat([i \in 1..Len(listing.lines) |-> RenderListingLine(listing.lines[i], listing)])

Shapes == [lead : {0, 1}, gap : {2, 3}, time : Times]
Listing(shape, lines) ==
  [lead |-> shape.lead, gap |-> shape.gap, time |-> shape.time, lines |-> lines]

\* Listings in any of the layouts: field groups before or after the version
AnyLines == {ListingLine(pre, n, post) :
               pre \in {<<>>, <<FieldB>>}, n \in Versions,
               post \in {<<>>, <<FieldA>>, <<FieldA, FieldB>>}}
AnyListings == {Listing(sh, ls) : sh \in Shapes, ls \in SeqsUpTo(AnyLines, MaxRecords)}

\* Listings as the tool prints them: version, changed fields, user and time
ToolLines == {ListingLine(<<>>, n, <<FieldA>>) : n \in Versions}
ToolShape == [lead |-> 1, gap |-> 2, time |-> <<"today">>]
ToolListings == {Listing(ToolShape, ls) : ls \in SeqsUpTo(ToolLines, MaxRecords)}

ExecFailed == [failed |-> TRUE, stdout |-> <<>>]
ExecOk(out) == [failed |-> FALSE, stdout |-> out]

\* ------------------------------------------------------------ state
VARIABLES
  \* one call of a function on its own
  phase,           \* "off", "input", "extracted", "rendered", "parsed"
  diffLines,       \* the changed lines the diff was printed from
  diffOutput,      \* the diff command's stdout
  extracted,       \* what getChangedStageVersions returned
  listing,         \* the rows the listing was printed from
  execResult,      \* how the versions command ended, and its stdout
  allVersions,     \* what getAllVersions returned
  rendered,        \* versionOutputs of generateCommentBody
  \* runs of the action
  pc,              \* where each run is
  variant,         \* which of the two programs the run executes
  prNumber,        \* process.env.PR_NUMBER
  currentPR,       \* currentPR.number
  issueNumber,     \* context.issue.number
  changed,         \* changedStageVersions (changedStages in main.ts)
  pending,         \* stages whose versions command has not ended
  versionOutputs,  \* the results Promise.all collects
  fetchResult,     \* how each stage's versions command ended
  completed,       \* the stages in the order their commands ended
  commentBody,
  existingComment, \* the id of the comment find returned, 0 when none
  comments,        \* the comments of each issue, as the server holds them
  writes,          \* the updateComment and createComment calls of each run
  failedAt,        \* the step at which setFailed was called
  finishedBefore   \* the runs that had ended when the run began

pureVars == <<phase, diffLines, diffOutput, extracted, listing, execResult,
              allVersions, rendered>>
runVars == <<pc, variant, prNumber, currentPR, issueNumber, changed, pending, versionOutputs,
             fetchResult, completed, commentBody, existingComment, comments, writes,
             failedAt, finishedBefore>>
vars == <<pureVars, runVars>>

Runs == {"r1", "r2"}
ThePR == "pull-13"
OtherIssue == "issue-7"
Undefined == "undefined"
Issues == {ThePR, OtherIssue}

NoExtraction == [threw |-> FALSE, stages |-> <<>>]

\* A comment somebody wrote with the same first line, and one of the bot's on
\* something else
InitialComments ==
  [i \in Issues |->
     IF i = ThePR
     THEN <<[id |-> 1, login |-> "octocat", body |-> <<Header, NL, "looks good">>],
            [id |-> 2, login |-> "github-actions[bot]", body |-> <<"Coverage report">>]>>
     ELSE <<>>]

PureOff ==
  /\ phase = "off"
  /\ diffLines = <<>>
  /\ diffOutput = <<>>
  /\ extracted = NoExtraction
  /\ listing = Listing(ToolShape, <<>>)
  /\ execResult = ExecFailed
  /\ allVersions = <<>>
  /\ rendered = <<>>

RunsIdle(active) ==
  /\ pc = [r \in Runs |-> IF r \in active THEN "idle" ELSE "off"]
  /\ variant = [r \in Runs |-> "none"]
  /\ prNumber = [r \in Runs |-> Undefined]
  /\ currentPR = [r \in Runs |-> Undefined]
  /\ issueNumber = [r \in Runs |-> Undefined]
  /\ changed = [r \in Runs |-> <<>>]
  /\ pending = [r \in Runs |-> {}]
  /\ versionOutputs = [r \in Runs |-> <<>>]
  /\ fetchResult = [r \in Runs |-> [st \in StageSet |-> ExecFailed]]
  /\ completed = [r \in Runs |-> <<>>]
  /\ commentBody = [r \in Runs |-> <<>>]
  /\ existingComment = [r \in Runs |-> 0]
  /\ comments = InitialComments
  /\ writes = [r \in Runs |-> <<>>]
  /\ failedAt = [r \in Runs |-> "none"]
  /\ finishedBefore = [r \in Runs |-> {}]

\* ------------------------------------------------------------ one call on its own
\* The callback generateCommentBody maps over STAGES, once the stage's versions
\* are there
StageOutput(stage, changedStageVersions, versions) ==
  IF ~HasEntry(changedStageVersions, stage) THEN NoChanges(stage)
  ELSE ChangedOutput(stage, FindEntry(changedStageVersions, stage), versions)

Extract ==
  /\ phase = "input"
  /\ phase' = "extracted"
  /\ extracted' = getChangedStageVersions(diffOutput)
  /\ UNCHANGED <<diffLines, diffOutput, listing, execResult, allVersions, rendered>>
  /\ UNCHANGED runVars

Render ==
  /\ phase = "extracted"
  /\ ~extracted.threw
  /\ phase' = "rendered"
  /\ rendered' = [i \in 1..Len(STAGES) |->
                    StageOutput(STAGES[i], extracted.stages, getAllVersions(execResult))]
  /\ UNCHANGED <<diffLines, diffOutput, extracted, listing, execResult, allVersions>>
  /\ UNCHANGED runVars

Parse ==
  /\ phase = "input"
  /\ phase' = "parsed"
  /\ allVersions' = getAllVersions(execResult)
  /\ UNCHANGED <<diffLines, diffOutput, extracted, listing, execResult, rendered>>
  /\ UNCHANGED runVars

InitInputs(diffs, listings, mayFail) ==
  /\ phase = "input"
  /\ diffLines \in diffs
  /\ diffOutput = RenderDiff(diffLines)
  /\ extracted = NoExtraction
  /\ listing \in listings
  /\ execResult \in {ExecOk(RenderListing(listing))}
                    \cup (IF mayFail /\ listing.lines = <<>> THEN {ExecFailed} ELSE {})
  /\ allVersions = <<>>
  /\ rendered = <<>>
  /\ RunsIdle({})

\* getChangedStageVersions over free-form diffs
InitDiff == InitInputs(FreeDiffs, {Listing(ToolShape, <<>>)}, FALSE)
NextDiff == Extract
SpecDiff == InitDiff /\ [][NextDiff]_vars

\* generateCommentBody over block diffs and the tool's listings
InitRender == InitInputs(BlockDiffs, ToolListings, TRUE)
NextRender == Extract \/ Render
SpecRender == InitRender /\ [][NextRender]_vars

\* getAllVersions over listings of any layout
InitParse == InitInputs({<<>>}, AnyListings, TRUE)
NextParse == Parse
SpecParse == InitParse /\ [][NextParse]_vars

\* ------------------------------------------------------------ runs of the action
Bot == "github-actions[bot]"

\* The diffs and the command results the runs draw from
ChangedBlock(st) == BlockChanged(st, VersionBase, VersionBase + 2)
AddedBlock(st) == BlockAdded(st, VersionBase + 1)
FullListing ==
  Listing(ToolShape,
          [i \in 1..(VersionSpan + 1) |->
             ListingLine(<<>>, VersionBase + VersionSpan + 1 - i, <<FieldA>>)])

SmallDiffs == {BlockNone, ChangedBlock("DEVELOPMENT") \o AddedBlock("PRODUCTION")}
SmallResults == {ExecFailed, ExecOk(RenderListing(FullListing))}

StageBlocks(st) == {BlockNone, ChangedBlock(st), AddedBlock(st)}
BodyDiffs == {b1 \o b2 \o b3 \o b4 :
                b1 \in StageBlocks("CI"), b2 \in StageBlocks("DEVELOPMENT"),
                b3 \in StageBlocks("STAGING"), b4 \in StageBlocks("PRODUCTION")}
BodyResults == {ExecFailed, ExecOk(RenderListing(FullListing))}

Fail(r, step) ==
  /\ pc' = [pc EXCEPT ![r] = "failed"]
  /\ failedAt' = [failedAt EXCEPT ![r] = step]

\* generateCommentBody has returned: its locals are gone
Leave(r) ==
  /\ changed' = [changed EXCEPT ![r] = <<>>]
  /\ versionOutputs' = [versionOutputs EXCEPT ![r] = <<>>]
  /\ fetchResult' = [fetchResult EXCEPT ![r] = [st \in StageSet |-> ExecFailed]]
  /\ completed' = [completed EXCEPT ![r] = <<>>]

\* run has returned and the process ends: nothing of it is left
Exit(r) ==
  /\ Leave(r)
  /\ prNumber' = [prNumber EXCEPT ![r] = Undefined]
  /\ currentPR' = [currentPR EXCEPT ![r] = Undefined]
  /\ issueNumber' = [issueNumber EXCEPT ![r] = Undefined]
  /\ commentBody' = [commentBody EXCEPT ![r] = <<>>]
  /\ existingComment' = [existingComment EXCEPT ![r] = 0]

\* run, up to its first await: the inputs, then the pull request
Start(r, programs) ==
  /\ pc[r] = "idle"
  /\ variant' \in {[variant EXCEPT ![r] = program] : program \in programs}
  /\ finishedBefore' = [finishedBefore EXCEPT
                          ![r] = {q \in Runs : pc[q] \in {"done", "failed"}}]
  /\ \E githubToken \in BOOLEAN, dotenvMe \in BOOLEAN :
       IF variant'[r] = "main"
       THEN \* getInput with required throws on an empty input
            IF githubToken /\ dotenvMe
            THEN /\ pc' = [pc EXCEPT ![r] = "diff"]
                 /\ issueNumber' \in {[issueNumber EXCEPT ![r] = issue] :
                                        issue \in Issues \cup {Undefined}}
                 /\ UNCHANGED <<failedAt, prNumber, currentPR>>
            ELSE Fail(r, "input") /\ UNCHANGED <<issueNumber, prNumber, currentPR>>
       ELSE IF ~githubToken
            THEN Fail(r, "githubToken") /\ UNCHANGED <<issueNumber, prNumber, currentPR>>
       ELSE IF ~dotenvMe
            THEN Fail(r, "dotenvMe") /\ UNCHANGED <<issueNumber, prNumber, currentPR>>
       ELSE \E pull_request \in BOOLEAN, number \in {Undefined, "13", "abc"} :
              IF pull_request
              THEN \* the event of a pull request names it as the issue, too
                   /\ currentPR' = [currentPR EXCEPT ![r] = ThePR]
                   /\ issueNumber' = [issueNumber EXCEPT ![r] = ThePR]
                   /\ pc' = [pc EXCEPT ![r] = "diff"]
                   /\ UNCHANGED <<failedAt, prNumber>>
              ELSE IF number # Undefined
              THEN /\ prNumber' = [prNumber EXCEPT ![r] = number]
                   /\ issueNumber' \in {[issueNumber EXCEPT ![r] = issue] :
                                          issue \in Issues \cup {Undefined}}
                   /\ pc' = [pc EXCEPT ![r] = "pullsGet"]
                   /\ UNCHANGED <<currentPR, failedAt>>
              ELSE Fail(r, "pullRequest") /\ UNCHANGED <<issueNumber, prNumber, currentPR>>
  /\ UNCHANGED <<changed, pending, versionOutputs, fetchResult, completed, commentBody,
                 existingComment, comments, writes>>
  /\ UNCHANGED pureVars

\* octokit.rest.pulls.get answers with the pull request
PullsGetDone(r) ==
  /\ pc[r] = "pullsGet"
  /\ prNumber[r] = "13"
  /\ currentPR' = [currentPR EXCEPT ![r] = ThePR]
  /\ pc' = [pc EXCEPT ![r] = "diff"]
  /\ UNCHANGED <<variant, prNumber, issueNumber, changed, pending, versionOutputs,
                 fetchResult, completed, commentBody, existingComment, comments, writes,
                 failedAt, finishedBefore>>
  /\ UNCHANGED pureVars

\* A rejected promise or a throw reaches the catch of run: setFailed
Throw(r, at) ==
  /\ Fail(r, at)
  /\ Exit(r)
  /\ UNCHANGED <<variant, pending, comments, writes, finishedBefore>>
  /\ UNCHANGED pureVars

\* octokit.rest.pulls.get is rejected
PullsGetFail(r) ==
  /\ pc[r] = "pullsGet"
  /\ Throw(r, "pullsGet")

\* The diff command fails
DiffFail(r) ==
  /\ pc[r] = "diff"
  /\ Throw(r, "diff")

\* listComments is rejected
ListFail(r) ==
  /\ pc[r] = "list"
  /\ Throw(r, "list")

\* main.ts keeps the stages the diff adds a line for
AddedStages(diff) ==
  SelectSeq(STAGES, LAMBDA stage : Includes(diff, StageMarker("+", stage)))

NoChangesDetected == <<Header, NL, NL, "No changes detected in .env.vault file.">>

\* A faulty variant: outputs collected in the order the commands end
CompletionIndex(r, stage) == Len(completed[r]) + 1

\* The slot of Promise.all's result a stage's output lands in
ResultIndex(r, stage) ==
  IF variant[r] = "main"
  THEN CHOOSE i \in 1..Len(changed[r]) : changed[r][i].stage = stage
  ELSE StageIndex(stage)

\* The diff command ends: the changed stages, and a versions command for each
DiffDone(r, diffs) ==
  /\ pc[r] = "diff"
  /\ \E lines \in diffs :
       LET diff == RenderDiff(lines)
           result == getChangedStageVersions(diff)
           added == AddedStages(diff)
       IN IF variant[r] = "main"
          THEN /\ changed' = [changed EXCEPT
                                ![r] = [i \in 1..Len(added) |->
                                          [stage |-> added[i], versions |-> <<>>]]]
               /\ pending' = [pending EXCEPT ![r] = {added[i] : i \in 1..Len(added)}]
               /\ versionOutputs' = [versionOutputs EXCEPT
                                       ![r] = [i \in 1..Len(added) |-> <<>>]]
               /\ IF added = <<>>
                  THEN /\ commentBody' = [commentBody EXCEPT ![r] = NoChangesDetected]
                       /\ pc' = [pc EXCEPT ![r] = "list"]
                  ELSE /\ pc' = [pc EXCEPT ![r] = "fetch"]
                       /\ UNCHANGED commentBody
               /\ UNCHANGED <<failedAt, prNumber, currentPR, issueNumber, fetchResult,
                              completed, existingComment>>
          ELSE IF result.threw
               THEN /\ Fail(r, "diff")
                    /\ Exit(r)
                    /\ UNCHANGED pending
          ELSE /\ changed' = [changed EXCEPT ![r] = result.stages]
               /\ pending' = [pending EXCEPT
                                ![r] = {st \in StageSet : HasEntry(result.stages, st)}]
               /\ versionOutputs' =
                    [versionOutputs EXCEPT
                       ![r] = [i \in 1..Len(STAGES) |->
                                 IF HasEntry(result.stages, STAGES[i]) THEN <<>>
                                 ELSE NoChanges(STAGES[i])]]
               /\ pc' = [pc EXCEPT ![r] = "fetch"]
               /\ UNCHANGED <<commentBody, failedAt, prNumber, currentPR, issueNumber,
                              fetchResult, completed, existingComment>>
  /\ UNCHANGED <<variant, comments, writes, finishedBefore>>
  /\ UNCHANGED pureVars

\* awk 'NR==3 { printf "%5s %s", $1, $2 }': the first two fields of the third line
RECURSIVE AwkFields(_, _)
AwkFields(text, cur) ==
  IF text = <<>> THEN (IF cur = <<>> THEN <<>> ELSE <<cur>>)
  ELSE IF Head(text) = SP
       THEN (IF cur = <<>> THEN <<>> ELSE <<cur>>) \o AwkFields(Tail(text), <<>>)
  ELSE AwkFields(Tail(text), Append(cur, Head(text)))

Pad(text, width) == Blanks(IF Len(text) < width THEN width - Len(text) ELSE 0) \o text

AwkThirdLine(out) ==
  LET lines == SplitOn(out, NL)
      fields == IF Len(lines) >= 3 THEN AwkFields(lines[3], <<>>) ELSE <<>>
  IN IF Len(lines) < 3 \/ (Len(lines) = 3 /\ lines[3] = <<>>) THEN <<>>
     ELSE Pad(IF Len(fields) >= 1 THEN fields[1] ELSE <<>>, 5) \o <<SP>>
          \o (IF Len(fields) >= 2 THEN fields[2] ELSE <<>>)

\* getLatestVersion of main.ts, given how the pipeline ended
getLatestVersion(result) ==
  IF result.failed THEN <<>> ELSE Trim(AwkThirdLine(result.stdout))

\* The callback of main.ts once getLatestVersion has returned
LatestOutput(stage, version) ==
  IF version = <<>> THEN <<>> ELSE <<NL, stage, ":", NL>> \o version

\* A faulty variant: the error of a failed versions command is not caught
RethrowsFailure(result) == result.failed

\* Whether a failed versions command rejects the promise of getAllVersions
\* (getLatestVersion): both catch the error and return
Rethrows(result) == FALSE

\* A versions command ends: the stage's output goes to its slot
FetchDone(r, st, results) ==
  /\ pc[r] = "fetch"
  /\ st \in pending[r]
  /\ \E result \in results :
       IF Rethrows(result)
       THEN /\ Fail(r, "fetch")
            /\ Exit(r)
            /\ UNCHANGED pending
       ELSE /\ fetchResult' = [fetchResult EXCEPT ![r][st] = result]
            /\ pending' = [pending EXCEPT ![r] = @ \ {st}]
            /\ completed' = [completed EXCEPT ![r] = Append(@, st)]
            /\ versionOutputs' =
                 [versionOutputs EXCEPT
                    ![r][ResultIndex(r, st)] =
                       IF variant[r] = "main"
                       THEN LatestOutput(st, getLatestVersion(result))
                       ELSE ChangedOutput(st, FindEntry(changed[r], st),
                                          getAllVersions(result))]
            /\ UNCHANGED <<pc, failedAt, prNumber, currentPR, issueNumber, changed,
                           commentBody, existingComment>>
  /\ UNCHANGED <<variant, comments, writes, finishedBefore>>
  /\ UNCHANGED pureVars

\* A faulty variant: the body is built once any command has ended
AnyFetched(r) == completed[r] # <<>> \/ pending[r] = {}

\* Promise.all resolves once every promise it was given has
AllFetched(r) == pending[r] = {}

\* generateCommentBody returns; listComments is called
Assemble(r) ==
  /\ pc[r] = "fetch"
  /\ AllFetched(r)
  /\ commentBody' = [commentBody EXCEPT
                       ![r] = IF variant[r] = "main"
                              THEN Trim(CommentBody(versionOutputs[r]))
                              ELSE CommentBody(versionOutputs[r])]
  /\ pc' = [pc EXCEPT ![r] = "list"]
  /\ UNCHANGED <<variant, prNumber, currentPR, issueNumber, changed, pending,
                 versionOutputs, fetchResult, completed, existingComment, comments,
                 writes, failedAt, finishedBefore>>
  /\ UNCHANGED pureVars

\* issue_number of the listComments call
ListedIssue(r) == IF variant[r] = "main" THEN issueNumber[r] ELSE currentPR[r]
\* issue_number of the createComment call
CreatedIssue(r) == issueNumber[r]

\* The predicate of comments.find
IsDiffComment(comment) ==
  /\ comment.login = Bot
  /\ comment.body # <<>>
  /\ comment.body[1] = Header

\* comments.find(...): the id of the first match, 0 for undefined
FindComment(list) ==
  IF \E i \in 1..Len(list) : IsDiffComment(list[i])
  THEN list[CHOOSE i \in 1..Len(list) :
              IsDiffComment(list[i]) /\ \A j \in 1..(i - 1) : ~IsDiffComment(list[j])].id
  ELSE 0

\* The server answers listComments; find runs over the answer
ListComments(r) ==
  /\ pc[r] = "list"
  /\ ListedIssue(r) # Undefined
  /\ existingComment' = [existingComment EXCEPT ![r] = FindComment(comments[ListedIssue(r)])]
  /\ pc' = [pc EXCEPT ![r] = "write"]
  /\ Leave(r)
  /\ UNCHANGED <<variant, prNumber, currentPR, issueNumber, pending, commentBody,
                 comments, writes, failedAt, finishedBefore>>
  /\ UNCHANGED pureVars

NextId == 1 + Len(comments[ThePR]) + Len(comments[OtherIssue])

\* The server carries out updateComment
UpdateComment(r) ==
  /\ pc[r] = "write"
  /\ existingComment[r] # 0
  /\ comments' = [i \in Issues |->
                    [k \in 1..Len(comments[i]) |->
                       IF comments[i][k].id = existingComment[r]
                       THEN [comments[i][k] EXCEPT !.body = commentBody[r]]
                       ELSE comments[i][k]]]
  /\ writes' = [writes EXCEPT
                  ![r] = Append(@, [kind |-> "update", issue |-> ListedIssue(r)])]
  /\ pc' = [pc EXCEPT ![r] = "done"]
  /\ Exit(r)
  /\ UNCHANGED <<variant, pending, failedAt, finishedBefore>>
  /\ UNCHANGED pureVars

\* The server carries out createComment
CreateComment(r) ==
  /\ pc[r] = "write"
  /\ existingComment[r] = 0
  /\ CreatedIssue(r) # Undefined
  /\ comments' = [comments EXCEPT
                    ![CreatedIssue(r)] =
                       Append(@, [id |-> NextId, login |-> Bot, body |-> commentBody[r]])]
  /\ writes' = [writes EXCEPT
                  ![r] = Append(@, [kind |-> "create", issue |-> CreatedIssue(r)])]
  /\ pc' = [pc EXCEPT ![r] = "done"]
  /\ Exit(r)
  /\ UNCHANGED <<variant, pending, failedAt, finishedBefore>>
  /\ UNCHANGED pureVars

\* updateComment or createComment is rejected
WriteFail(r) ==
  /\ pc[r] = "write"
  /\ writes' = [writes EXCEPT
                  ![r] = Append(@, [kind |-> IF existingComment[r] # 0 THEN "update"
                                             ELSE "create",
                                    issue |-> IF existingComment[r] # 0 THEN ListedIssue(r)
                                              ELSE CreatedIssue(r)])]
  /\ Fail(r, "write")
  /\ Exit(r)
  /\ UNCHANGED <<variant, pending, comments, finishedBefore>>
  /\ UNCHANGED pureVars

Programs == {"part_000", "main"}

\* Two runs of either program against the same pull request
Init == PureOff /\ RunsIdle(Runs)
Next ==
  \E r \in Runs :
    \/ Start(r, Programs)
    \/ PullsGetDone(r)
    \/ PullsGetFail(r)
    \/ DiffDone(r, SmallDiffs)
    \/ DiffFail(r)
    \/ \E st \in StageSet : FetchDone(r, st, SmallResults)
    \/ Assemble(r)
    \/ ListComments(r)
    \/ ListFail(r)
    \/ UpdateComment(r)
    \/ CreateComment(r)
    \/ WriteFail(r)
Spec == Init /\ [][Next]_vars

\* generateCommentBody of one run of part_000, over every set of changed stages
InitBody == PureOff /\ RunsIdle({"r1"})
NextBody ==
  \/ Start("r1", {"part_000"})
  \/ DiffDone("r1", BodyDiffs)
  \/ \E st \in StageSet : FetchDone("r1", st, BodyResults)
  \/ Assemble("r1")
SpecBody == InitBody /\ [][NextBody]_vars

\* ------------------------------------------------------------ properties of one call
SetMin(S) == CHOOSE x \in S : \A y \in S : x <= y
SetMax(S) == CHOOSE x \in S : \A y \in S : x >= y

\* What the changed lines say, read off the lines and not off the text
MarkedVersions(sign, st) ==
  {diffLines[i].n : i \in {j \in 1..Len(diffLines) :
      diffLines[j].sign = sign /\ diffLines[j].stage = st /\ diffLines[j].kind = "VERSION"}}
Mentioned(st) ==
  \E i \in 1..Len(diffLines) : diffLines[i].stage = st /\ diffLines[i].sign \in {"+", "-"}
Degenerate(st) ==
  \/ MarkedVersions("+", st) = {}
  \/ MarkedVersions("-", st) = {}
  \/ SetMin(MarkedVersions("-", st)) >= SetMax(MarkedVersions("+", st))
Bracket(st) ==
  LET lo == SetMin(MarkedVersions("-", st))
      hi == SetMax(MarkedVersions("+", st))
  IN [i \in 1..(hi - lo) |-> lo + i]
InMapping(st) == HasEntry(extracted.stages, st)
RangeOf(st) == FindEntry(extracted.stages, st).versions

\* C3: a stage with an added and a removed version marker, min(removed) below
\* max(added), gets exactly min(removed)+1 .. max(added), whatever else the diff holds
RangeCorrect ==
  phase = "extracted" =>
    \A st \in StageSet :
      (Mentioned(st) /\ ~Degenerate(st)) =>
        /\ ~extracted.threw
        /\ InMapping(st)
        /\ RangeOf(st) = Bracket(st)

\* Two added markers and a removed one below them: the range spans two versions
RangeWitness ==
  /\ phase = "extracted"
  /\ \E st \in StageSet :
       /\ Cardinality(MarkedVersions("+", st)) = 2
       /\ MarkedVersions("-", st) # {}
       /\ InMapping(st)
       /\ Len(RangeOf(st)) = 2

\* C5 as stated: a stage is in the mapping only if the diff holds an added and a
\* removed version marker for it
MembershipNeedsBothMarkers ==
  phase = "extracted" =>
    \A st \in StageSet :
      InMapping(st) => (MarkedVersions("+", st) # {} /\ MarkedVersions("-", st) # {})

\* C5 amended: a stage is in the mapping exactly when a changed line starts with
\* its name; without both version markers its versions are empty
MembershipIsMention ==
  phase = "extracted" =>
    \A st \in StageSet :
      /\ InMapping(st) <=> Mentioned(st)
      /\ (InMapping(st) /\ (MarkedVersions("+", st) = {} \/ MarkedVersions("-", st) = {}))
           => RangeOf(st) = <<>>

\* A stage in the mapping on the strength of a removed line that is no version line
MembershipWitness ==
  /\ phase = "extracted"
  /\ \E st \in StageSet :
       /\ InMapping(st)
       /\ MarkedVersions("+", st) = {} /\ MarkedVersions("-", st) = {}
       /\ \A i \in 1..Len(diffLines) : diffLines[i].stage = st => diffLines[i].sign = "-"

\* C4: a changed stage without added markers, without removed markers or with
\* min(removed) >= max(added) makes nothing throw, gets no versions and is
\* rendered as "<Stage>: No versions changed"
DegenerateSafe ==
  phase \in {"extracted", "rendered"} =>
    \A st \in StageSet :
      (Mentioned(st) /\ Degenerate(st)) =>
        /\ ~extracted.threw
        /\ InMapping(st)
        /\ RangeOf(st) = <<>>
        /\ phase = "rendered" => rendered[StageIndex(st)] = NoVersionsChanged(st)

\* An added marker alone, rendered against a listing that has rows
DegenerateWitness ==
  /\ phase = "rendered"
  /\ ~execResult.failed
  /\ listing.lines # <<>>
  /\ \E st \in StageSet :
       /\ MarkedVersions("+", st) # {}
       /\ MarkedVersions("-", st) = {}
       /\ rendered[StageIndex(st)] = NoVersionsChanged(st)

\* The rows of the listing whose version is in the stage's range, in listing order
RowsInRange(st) ==
  LET Keep(l) == \E i \in 1..Len(RangeOf(st)) : RangeOf(st)[i] = l.n
  IN IF execResult.failed THEN <<>> ELSE SelectSeq(listing.lines, Keep)
RowText(st, l) == VersionLine(st, [version |-> ToDigits(l.n), fields |-> l.post[1]])

\* C8: a changed stage emits one line per listing row whose version is in its
\* range, in listing order, and "<Stage>: No versions changed" when there is none
FilterCorrect ==
  phase = "rendered" =>
    \A st \in StageSet :
      InMapping(st) =>
        rendered[StageIndex(st)] =
          IF RowsInRange(st) = <<>> THEN NoVersionsChanged(st)
          ELSE Join([i \in 1..Len(RowsInRange(st)) |-> RowText(st, RowsInRange(st)[i])],
                    <<NL>>)

\* Two rows, newest first, of which the range keeps only the first
FilterWitness ==
  /\ phase = "rendered"
  /\ Len(listing.lines) = 2
  /\ listing.lines[1].n > listing.lines[2].n
  /\ \E st \in StageSet :
       /\ InMapping(st)
       /\ RowsInRange(st) = <<listing.lines[1]>>

\* The record a row stands for when the version group comes first
RowRecord(l) ==
  [version |-> ToDigits(l.n),
   fields |-> IF l.post = <<>> THEN <<"N/A">> ELSE l.post[1],
   user |-> <<"alice">>,
   time |-> Join([i \in 1..Len(listing.time) |-> <<listing.time[i]>>], <<SP>>)]

DiffComments(issue) ==
  {k \in 1..Len(comments[issue]) : IsDiffComment(comments[issue][k])}

\* C1: whatever the runs and however their steps interleave, the pull request
\* carries at most one comment of the bot that starts with the header
AtMostOneDiffComment == Cardinality(DiffComments(ThePR)) <= 1

\* C2: a run of part_000 that begins after another has posted its comment finds
\* that comment and updates it, on either way of resolving the pull request
RerunUpdatesInPlace ==
  \A a \in Runs, b \in Runs :
    (/\ variant[a] = "part_000" /\ variant[b] = "part_000"
     /\ a \in finishedBefore[b]
     /\ pc[a] = "done" /\ pc[b] = "done")
      => writes[b][1].kind = "update"

\* The lines of an assembled body after the header line
BodyLines(r) == Tail(SplitOn(commentBody[r], NL))
ChangedSet(r) == {st \in StageSet : HasEntry(changed[r], st)}

\* C6: the body is assembled only after every fetch has ended, and whatever the
\* order they ended in it holds one fragment per stage, in the order of STAGES
FanInOrder ==
  \A r \in Runs :
    pc[r] = "list" =>
      LET lines == BodyLines(r)
          stageAt == [i \in 1..Len(lines) |-> IF lines[i] = <<>> THEN "" ELSE lines[i][1]]
      IN /\ pending[r] = {}
         /\ {completed[r][i] : i \in 1..Len(completed[r])} = ChangedSet(r)
         /\ commentBody[r] # <<>> /\ commentBody[r][1] = Header
         /\ \A i \in 1..Len(lines) : stageAt[i] \in StageSet
         /\ \A i \in 1..Len(lines), j \in 1..Len(lines) :
              i < j => StageIndex(stageAt[i]) <= StageIndex(stageAt[j])
         /\ \A st \in StageSet : \E i \in 1..Len(lines) : stageAt[i] = st
         /\ \A st \in StageSet \ ChangedSet(r) :
              Cardinality({i \in 1..Len(lines) : stageAt[i] = st}) = 1

\* Three fetches or more, the first two ended against the order of STAGES
FanInWitness ==
  \E r \in Runs :
    /\ pc[r] = "list"
    /\ Len(completed[r]) >= 3
    /\ StageIndex(completed[r][1]) > StageIndex(completed[r][2])

\* The output of a stage whose command printed the full listing
FullListingOutput(r, st) ==
  LET versions == FindEntry(changed[r], st).versions
      Keep(l) == \E i \in 1..Len(versions) : versions[i] = l.n
      rows == SelectSeq(FullListing.lines, Keep)
  IN IF rows = <<>> THEN NoVersionsChanged(st)
     ELSE Join([i \in 1..Len(rows) |->
                  VersionLine(st, [version |-> ToDigits(rows[i].n), fields |-> FieldA])],
               <<NL>>)

\* C7: a failed versions command fails no run; its stage reads "No versions
\* changed", every other stage reads as its own command's result has it, and
\* all four fragments are there in order
GracefulDegrade ==
  \A r \in Runs :
    /\ failedAt[r] # "fetch"
    /\ \A i \in 1..Len(completed[r]) :
         LET st == completed[r][i]
         IN versionOutputs[r][StageIndex(st)] =
              IF fetchResult[r][st].failed THEN NoVersionsChanged(st)
              ELSE FullListingOutput(r, st)
    /\ pc[r] = "list" =>
         /\ Len(versionOutputs[r]) = Len(STAGES)
         /\ \A i \in 1..Len(STAGES) :
              versionOutputs[r][i] # <<>> /\ versionOutputs[r][i][1] = STAGES[i]

\* One command failed, another gave a stage its version lines
DegradeWitness ==
  \E r \in Runs :
    /\ pc[r] = "list"
    /\ \E st1 \in StageSet, st2 \in StageSet :
         /\ st1 \in ChangedSet(r) /\ st2 \in ChangedSet(r)
         /\ fetchResult[r][st1].failed
         /\ versionOutputs[r][StageIndex(st1)] = NoVersionsChanged(st1)
         /\ ~fetchResult[r][st2].failed
         /\ Includes(versionOutputs[r][StageIndex(st2)], <<"(">>)

\* C10: a run writes a comment at most once, and only with the diff read and
\* every fetch ended; a run that failed before the write wrote nothing; no fetch
\* begins before the diff is read
PostIsLast ==
  \A r \in Runs :
    /\ Len(writes[r]) <= 1
    /\ writes[r] # <<>> =>
         /\ pending[r] = {}
         /\ pc[r] = "done" \/ (pc[r] = "failed" /\ failedAt[r] = "write")
    /\ (pc[r] = "failed" /\ failedAt[r] # "write") => writes[r] = <<>>
    /\ pc[r] \in {"idle", "pullsGet", "diff"} =>
         (pending[r] = {} /\ completed[r] = <<>> /\ commentBody[r] = <<>>)
    /\ pc[r] \in {"list", "write"} => pending[r] = {}

\* One run posted a body with a version line, the other failed at the diff
PostWitness ==
  \E r \in Runs, q \in Runs :
    /\ pc[r] = "done"
    /\ writes[r] = <<[kind |-> "create", issue |-> ThePR]>>
    /\ \E k \in DiffComments(ThePR) : Includes(comments[ThePR][k].body, <<"(">>)
    /\ pc[q] = "failed" /\ failedAt[q] = "diff" /\ writes[q] = <<>>

====
